---- MODULE Spec2Model ----
(***************************************************************************)
(* The poll / dedup / backoff state machine of the tweet-to-SMS monitor    *)
(* (twitter_monitor.py, driven by main.py, delivering through              *)
(* sms_sender.py).                                                         *)
(*                                                                         *)
(* One invocation is one process: main() constructs a TwitterMonitor       *)
(* (load_data, _initialize_activity_tracking, get_user_id) and calls       *)
(* check_for_new_tweets once.  The process is cut into steps at its        *)
(* blocking calls (the fetch, each send), which is where the clock moves   *)
(* and where a process can die.  Time is in seconds since a local          *)
(* midnight.                                                               *)
(***************************************************************************)
EXTENDS Integers, Sequences, FiniteSets, TLC

VARIABLES
    now,            \* the wall clock (datetime.now)
    instants,       \* the instants at which the clock is read in this behaviour
    item_limit,     \* how many tweets the account posts in this behaviour
    created,        \* created[i]: creation time of the tweet with id i
    file_state,     \* data.json: "missing", "ok", "corrupt" (not JSON), "not_mapping"
    file,           \* the content of data.json when file_state = "ok"
    runs,           \* invocations started so far (bounded by MaxRuns)
    pc,             \* pc[p]: where process p is
    data,           \* data[p]: self.data of process p
    shams_user_id,  \* shams_user_id[p]: self.shams_user_id
    check_time,     \* check_time[p]: local of check_for_new_tweets
    new_tweets,     \* new_tweets[p]: the batch, oldest first
    idx,            \* idx[p]: position of the for loop in new_tweets
    sms_sent_count, \* sms_sent_count[p]: local of check_for_new_tweets
    today,          \* today[p]: local of process_new_tweet (read before the send)
    exit_code,      \* exit_code[p]: how the last invocation of p ended
    calls,          \* calls[p]: feed and delivery calls made by the invocation
    outbox,         \* tweet ids whose SMS the delivery channel accepted, in order
    failed,         \* tweet ids for which send_notification returned False
    alerts          \* dates of the volume alerts the delivery channel accepted

vars == <<now, instants, item_limit, created, file_state, file, runs, pc, data, shams_user_id,
          check_time, new_tweets, idx, sms_sent_count, today, exit_code, calls,
          outbox, failed, alerts>>

world == <<now, instants, item_limit, created>>
locals == <<check_time, new_tweets, idx, sms_sent_count, today>>

(***************************** bounds ***************************************)
MaxItems == 2
MaxRuns == 2

(************************ constants of the program **************************)
MaxAge == 3600
PauseSeconds == 172800
RetentionSeconds == 2592000
DaySeconds == 86400
HardStop == 10
SoftThreshold == 25
AlertThreshold == 10
MaxResults == 10
NoId == 0
NoDate == -1

Procs == {1, 2}
FallbackUserId == "178580925"
ResolvedUserId == "178580925"
RateLimitReason == "Twitter API rate limit exceeded"
VolumeReason == "SMS threshold exceeded"
ManualReason == "manual"

(* The clock is read at a few instants only.  Each schedule holds one limit *)
(* of the program exactly, with an instant on either side of it: the age    *)
(* limit, the end of a 48-hour pause, the end of the retention window.      *)
(* A blocked call returns within BlockLimit.                                *)
Schedules == { {0, MaxAge, MaxAge + 1},
               {0, MaxAge, PauseSeconds},
               {0, RetentionSeconds, RetentionSeconds + 1} }
BlockLimit == MaxAge + 1

(******************************* time ***************************************)
(* datetime.isoformat(): date first, then the time of day; the code         *)
(* compares these strings lexicographically.                                *)
IsoFormat(t) == <<t \div DaySeconds, t % DaySeconds>>
FromIsoFormat(s) == s[1] * DaySeconds + s[2]
IsoGE(a, b) == a[1] > b[1] \/ (a[1] = b[1] /\ a[2] >= b[2])
Today(t) == t \div DaySeconds

(****************************** state file **********************************)
NotPaused == [kind |-> "none", at |-> IsoFormat(0)]
Indefinite == [kind |-> "indefinite", at |-> IsoFormat(0)]
Until(t) == [kind |-> "until", at |-> IsoFormat(t)]

EmptyCounts == [d \in {} |-> 0]

_create_default_data ==
    [last_tweet_id |-> NoId,
     total_tweets_sent |-> 0,
     shams_user_id |-> "None",
     activity_log |-> <<>>,
     daily_sms_count |-> EmptyCounts,
     last_volume_alert |-> NoDate,
     paused_until |-> NotPaused,
     pause_reason |-> "None"]

load_data == IF file_state = "ok" THEN file ELSE _create_default_data

(* Line 99 calls data.get on whatever json.load returned, inside a try that *)
(* catches FileNotFoundError and JSONDecodeError only: on JSON that is not  *)
(* an object ([], 42, "x") it raises AttributeError.                        *)
load_data_raises == file_state = "not_mapping"

Get(counts, d) == IF d \in DOMAIN counts THEN counts[d] ELSE 0
Put(counts, d, n) == [x \in DOMAIN counts \cup {d} |-> IF x = d THEN n ELSE counts[x]]

(*************************** pause controller *******************************)
(* A variant of _clear_pause that forgets to clear the reason. *)
_clear_pause_until_only(d) == [d EXCEPT !.paused_until = NotPaused]

_clear_pause(d) == [d EXCEPT !.paused_until = NotPaused, !.pause_reason = "None"]

(* A variant of set_48_hour_pause that pauses for one day only. *)
set_24_hour_pause(d, reason, t) ==
    [d EXCEPT !.paused_until = Until(t + DaySeconds), !.pause_reason = reason]

set_48_hour_pause(d, reason, t) ==
    [d EXCEPT !.paused_until = Until(t + PauseSeconds), !.pause_reason = reason]

set_indefinite_pause(d, reason) ==
    [d EXCEPT !.paused_until = Indefinite, !.pause_reason = reason]

(* A variant of is_paused without the test for the "indefinite" sentinel:   *)
(* fromisoformat raises on it, and the handler clears the pause.            *)
is_paused_no_sentinel(d, t) ==
    CASE d.paused_until.kind = "none" ->
            [paused |-> FALSE, data |-> d, saved |-> FALSE]
      [] d.paused_until.kind = "indefinite" ->
            [paused |-> FALSE, data |-> _clear_pause(d), saved |-> TRUE]
      [] OTHER ->
            IF t < FromIsoFormat(d.paused_until.at)
            THEN [paused |-> TRUE, data |-> d, saved |-> FALSE]
            ELSE [paused |-> FALSE, data |-> _clear_pause(d), saved |-> TRUE]

(* A variant of is_paused that still reports a pause at the very instant    *)
(* it ends.                                                                 *)
is_paused_inclusive(d, t) ==
    CASE d.paused_until.kind = "none" ->
            [paused |-> FALSE, data |-> d, saved |-> FALSE]
      [] d.paused_until.kind = "indefinite" ->
            [paused |-> TRUE, data |-> d, saved |-> FALSE]
      [] OTHER ->
            IF t <= FromIsoFormat(d.paused_until.at)
            THEN [paused |-> TRUE, data |-> d, saved |-> FALSE]
            ELSE [paused |-> FALSE, data |-> _clear_pause(d), saved |-> TRUE]

(* is_paused: the answer, the data after it, and whether it saved.          *)
is_paused(d, t) ==
    CASE d.paused_until.kind = "none" ->
            [paused |-> FALSE, data |-> d, saved |-> FALSE]
      [] d.paused_until.kind = "indefinite" ->
            [paused |-> TRUE, data |-> d, saved |-> FALSE]
      [] OTHER ->
            IF t < FromIsoFormat(d.paused_until.at)
            THEN [paused |-> TRUE, data |-> d, saved |-> FALSE]
            ELSE [paused |-> FALSE, data |-> _clear_pause(d), saved |-> TRUE]

(****************************** activity log ********************************)
ActivityEntry(timestamp, action_type, tweets_found, sms_sent) ==
    [timestamp |-> timestamp, action |-> action_type,
     tweets_found |-> tweets_found, sms_sent |-> sms_sent]

(* A variant of Keep that drops the record stamped exactly at the cutoff. *)
KeepNewerOnly(log, cutoff_str) ==
    SelectSeq(log, LAMBDA r : ~IsoGE(cutoff_str, r.timestamp))

(* Lines 407-410: the records whose timestamp string is >= cutoff_str. *)
Keep(log, cutoff_str) == SelectSeq(log, LAMBDA r : IsoGE(r.timestamp, cutoff_str))

(* A variant of _log_activity that appends the entry twice. *)
_log_activity_twice(d, timestamp, action_type, tweets_found, sms_sent, t) ==
    LET entry == ActivityEntry(timestamp, action_type, tweets_found, sms_sent)
    IN [d EXCEPT !.activity_log =
          Keep(Append(Append(d.activity_log, entry), entry),
               IsoFormat(t - RetentionSeconds))]

_log_activity(d, timestamp, action_type, tweets_found, sms_sent, t) ==
    [d EXCEPT !.activity_log =
        Keep(Append(d.activity_log,
                    ActivityEntry(timestamp, action_type, tweets_found, sms_sent)),
             IsoFormat(t - RetentionSeconds))]

(******************************* usage report ******************************)
RECURSIVE SumFound(_)
SumFound(log) == IF log = <<>> THEN 0 ELSE log[1].tweets_found + SumFound(Tail(log))

RECURSIVE SumSent(_)
SumSent(log) == IF log = <<>> THEN 0 ELSE log[1].sms_sent + SumSent(Tail(log))

CountAction(log, action_type) == Len(SelectSeq(log, LAMBDA r : r.action = action_type))

(* get_usage_report(period_days), on the state d at time t. *)
get_usage_report(d, period_days, t) ==
    LET cutoff_str == IsoFormat(t - period_days * DaySeconds)
        period_logs == SelectSeq(d.activity_log, LAMBDA r : IsoGE(r.timestamp, cutoff_str))
    IN [period_days |-> period_days,
        total_checks |-> CountAction(period_logs, "check"),
        rate_limited_checks |-> CountAction(period_logs, "rate_limited"),
        error_checks |-> CountAction(period_logs, "error"),
        total_tweets_found |-> SumFound(period_logs),
        total_sms_sent |-> SumSent(period_logs),
        daily_sms_counts |-> [date \in {Today(t) - i : i \in 0..(period_days - 1)} |->
                                 Get(d.daily_sms_count, date)],
        last_check |-> IF period_logs = <<>> THEN IsoFormat(0)
                       ELSE period_logs[Len(period_logs)].timestamp]

(******************************** the feed **********************************)
(* A variant of get_users_tweets for a fetch that does not pass since_id:   *)
(* the latest tweets, whatever the marker.                                  *)
get_users_tweets_all(since_id) ==
    LET hi == Len(created)
        n == IF hi > MaxResults THEN MaxResults ELSE hi
    IN [i \in 1..n |-> hi - i + 1]

(* get_users_tweets(since_id): the tweets newer than since_id, newest       *)
(* first, at most max_results of them.                                      *)
get_users_tweets(since_id) ==
    LET hi == Len(created)
        n == IF hi - since_id > MaxResults THEN MaxResults
             ELSE IF hi - since_id < 0 THEN 0 ELSE hi - since_id
    IN [i \in 1..n |-> hi - i + 1]

(* A variant of reversed that leaves the batch newest first. *)
not_reversed(s) == s

reversed(s) == [i \in 1..Len(s) |-> s[Len(s) - i + 1]]

(****************************** bookkeeping *********************************)
Set(f, p, v) == [f EXCEPT ![p] = v]
NoCalls == [resolve |-> 0, feed |-> 0, send |-> 0]
Called(p, what) == Set(calls, p, [calls[p] EXCEPT ![what] = @ + 1])

(* save_data: json.dump of self.data into data.json *)
save_data(d) == file' = d /\ file_state' = "ok"

(* The process ends: its memory is gone. *)
Exit(p, code) ==
    /\ pc' = Set(pc, p, "idle")
    /\ exit_code' = Set(exit_code, p, code)
    /\ data' = Set(data, p, _create_default_data)
    /\ shams_user_id' = Set(shams_user_id, p, "None")
    /\ check_time' = Set(check_time, p, IsoFormat(0))
    /\ new_tweets' = Set(new_tweets, p, <<>>)
    /\ idx' = Set(idx, p, 0)
    /\ sms_sent_count' = Set(sms_sent_count, p, 0)
    /\ today' = Set(today, p, 0)

(************************ TwitterMonitor.__init__ ***************************)
(* load_data, _initialize_activity_tracking, get_user_id.                   *)
Construct(p, resolve_ok) ==
    /\ pc[p] = "idle"
    /\ runs < MaxRuns
    /\ ~load_data_raises
    /\ runs' = runs + 1
    /\ LET loaded == load_data
           cached == loaded.shams_user_id
       IN IF cached # "None"
          THEN /\ data' = Set(data, p, loaded)
               /\ shams_user_id' = Set(shams_user_id, p, cached)
               /\ calls' = Set(calls, p, NoCalls)
               /\ UNCHANGED <<file, file_state>>
          ELSE /\ calls' = Set(calls, p, [NoCalls EXCEPT !.resolve = 1])
               /\ IF resolve_ok
                  THEN LET d == [loaded EXCEPT !.shams_user_id = ResolvedUserId]
                       IN /\ data' = Set(data, p, d)
                          /\ shams_user_id' = Set(shams_user_id, p, ResolvedUserId)
                          /\ save_data(d)
                  ELSE /\ data' = Set(data, p, loaded)
                       /\ shams_user_id' = Set(shams_user_id, p, FallbackUserId)
                       /\ UNCHANGED <<file, file_state>>
    /\ pc' = Set(pc, p, "start")
    /\ exit_code' = Set(exit_code, p, "running")
    /\ UNCHANGED <<world, locals, outbox, failed, alerts>>

(* load_data raised: the exception leaves __init__ and main (line 56 is     *)
(* outside the try), and the process ends with a traceback.                 *)
ConstructRaises(p) ==
    /\ pc[p] = "idle"
    /\ runs < MaxRuns
    /\ load_data_raises
    /\ runs' = runs + 1
    /\ exit_code' = Set(exit_code, p, "traceback")
    /\ UNCHANGED <<world, locals, file, file_state, pc, data, shams_user_id, calls,
                   outbox, failed, alerts>>

(************************* check_for_new_tweets *****************************)
(* Lines 233-244: check_time, is_paused, and the paused branch              *)
(* (get_pause_status asks is_paused once more).                             *)
BeginCycle(p) ==
    /\ pc[p] = "start"
    /\ LET r == is_paused(data[p], now)
       IN IF r.paused
          THEN LET status == is_paused(r.data, now)
                   d == _log_activity(status.data, IsoFormat(now), "paused", 0, 0, now)
               IN save_data(d) /\ Exit(p, "ok")
          ELSE /\ data' = Set(data, p, r.data)
               /\ IF r.saved THEN save_data(r.data) ELSE UNCHANGED <<file, file_state>>
               /\ check_time' = Set(check_time, p, IsoFormat(now))
               /\ pc' = Set(pc, p, "fetch")
               /\ UNCHANGED <<shams_user_id, new_tweets, idx, sms_sent_count, today,
                              exit_code>>
    /\ UNCHANGED <<world, runs, calls, outbox, failed, alerts>>

(* Lines 246-270: the fetch returns a batch. *)
FetchOk(p) ==
    /\ pc[p] = "fetch"
    /\ calls' = Called(p, "feed")
    /\ LET tweets == get_users_tweets(data[p].last_tweet_id)
       IN IF Len(tweets) = 0
          THEN save_data(_log_activity(data[p], check_time[p], "check", 0, 0, now))
               /\ Exit(p, "ok")
          ELSE /\ new_tweets' = Set(new_tweets, p, reversed(tweets))
               /\ idx' = Set(idx, p, 1)
               /\ sms_sent_count' = Set(sms_sent_count, p, 0)
               /\ pc' = Set(pc, p, "process")
               /\ UNCHANGED <<data, file, file_state, shams_user_id, check_time, today,
                              exit_code>>
    /\ UNCHANGED <<world, runs, outbox, failed, alerts>>

(* Lines 279-292: tweepy.TooManyRequests. *)
FetchRateLimited(p) ==
    /\ pc[p] = "fetch"
    /\ calls' = Called(p, "feed")
    /\ LET d1 == set_48_hour_pause(data[p], RateLimitReason, now)
           d2 == _log_activity(d1, check_time[p], "rate_limited_paused", 0, 0, now)
       IN save_data(d2)
    /\ Exit(p, "ok")
    /\ UNCHANGED <<world, runs, outbox, failed, alerts>>

(* A variant of FetchError that swallows the exception after logging it, as *)
(* the rate-limit handler does.                                             *)
FetchErrorSwallowed(p) ==
    /\ pc[p] = "fetch"
    /\ calls' = Called(p, "feed")
    /\ save_data(_log_activity(data[p], check_time[p], "error", 0, 0, now))
    /\ Exit(p, "ok")
    /\ UNCHANGED <<world, runs, outbox, failed, alerts>>

(* Lines 293-296 and main.py 65-67: any other exception is logged, re-raised, *)
(* and main exits with status 1.                                             *)
FetchError(p) ==
    /\ pc[p] = "fetch"
    /\ calls' = Called(p, "feed")
    /\ save_data(_log_activity(data[p], check_time[p], "error", 0, 0, now))
    /\ Exit(p, "error")
    /\ UNCHANGED <<world, runs, outbox, failed, alerts>>

(* The for loop of lines 272-277 after process_new_tweet returned: the next *)
(* tweet, or the cycle's record.  d is self.data, saved tells whether       *)
(* process_new_tweet saved it.                                              *)
Advance(p, d, count, saved) ==
    IF idx[p] < Len(new_tweets[p])
    THEN /\ idx' = Set(idx, p, idx[p] + 1)
         /\ sms_sent_count' = Set(sms_sent_count, p, count)
         /\ data' = Set(data, p, d)
         /\ pc' = Set(pc, p, "process")
         /\ IF saved THEN save_data(d) ELSE UNCHANGED <<file, file_state>>
         /\ UNCHANGED <<shams_user_id, check_time, new_tweets, today, exit_code>>
    ELSE /\ save_data(_log_activity(d, check_time[p], "check",
                                    Len(new_tweets[p]), count, now))
         /\ Exit(p, "ok")

(**************************** process_new_tweet *****************************)
(* A variant of the hard stop that lets the tenth-plus-one message through. *)
over_hard_stop_strict(daily_count) == daily_count > HardStop

(* A variant of the hard stop that uses the threshold of the backoff rule. *)
over_hard_stop_soft(daily_count) == daily_count >= SoftThreshold

(* A variant of the hard stop raised above the threshold of the backoff     *)
(* rule.                                                                    *)
over_hard_stop_raised(daily_count) == daily_count >= SoftThreshold + HardStop

(* Line 317: the hard stop. *)
over_hard_stop(daily_count) == daily_count >= HardStop

(* A variant of SendFailed that marks the tweet as seen although its send   *)
(* failed.                                                                  *)
SendFailedAdvancesMarker(p) ==
    /\ Advance(p, [data[p] EXCEPT !.last_tweet_id = new_tweets[p][idx[p]]],
               sms_sent_count[p], TRUE)
    /\ failed' = failed \cup {new_tweets[p][idx[p]]}
    /\ UNCHANGED outbox

(* A variant of SendFailed that gives up the rest of the batch. *)
SendFailedAborts(p) ==
    /\ save_data(_log_activity(data[p], check_time[p], "check",
                               Len(new_tweets[p]), sms_sent_count[p], now))
    /\ Exit(p, "ok")
    /\ failed' = failed \cup {new_tweets[p][idx[p]]}
    /\ UNCHANGED outbox

(* Lines 347-349: send_notification returned False; nothing is written. *)
SendFailed(p) ==
    /\ Advance(p, data[p], sms_sent_count[p], FALSE)
    /\ failed' = failed \cup {new_tweets[p][idx[p]]}
    /\ UNCHANGED outbox

(* A variant of the age filter that also excludes a tweet aged exactly one  *)
(* hour.                                                                    *)
too_old_inclusive(tweet_age) == tweet_age >= MaxAge

(* Line 303: the age filter. *)
too_old(tweet_age) == tweet_age > MaxAge

(* A variant of the dedup filter that never matches. *)
already_processed_never(tweet_id, last_tweet_id) == FALSE

(* Line 308: the dedup filter. *)
already_processed(tweet_id, last_tweet_id) == tweet_id = last_tweet_id

(* Lines 298-331 and 347-353: the filters, the caps, and the send. *)
ProcessTweet(p, send_ok) ==
    /\ pc[p] = "process"
    /\ LET tweet == new_tweets[p][idx[p]]
           tweet_age == now - created[tweet]
           day == Today(now)
           daily_count == Get(data[p].daily_sms_count, day)
       IN IF too_old(tweet_age) \/ already_processed(tweet, data[p].last_tweet_id)
             \/ over_hard_stop(daily_count)
          THEN /\ Advance(p, data[p], sms_sent_count[p], FALSE)
               /\ UNCHANGED <<calls, outbox, failed>>
          ELSE IF daily_count >= SoftThreshold
          THEN /\ Advance(p, set_48_hour_pause(data[p], VolumeReason, now),
                          sms_sent_count[p], TRUE)
               /\ UNCHANGED <<calls, outbox, failed>>
          ELSE /\ calls' = Called(p, "send")
               /\ IF send_ok
                  THEN /\ outbox' = Append(outbox, tweet)
                       /\ pc' = Set(pc, p, "sent")
                       /\ today' = Set(today, p, day)
                       /\ UNCHANGED <<data, file, file_state, shams_user_id, check_time,
                                      new_tweets, idx, sms_sent_count, exit_code, failed>>
                  ELSE SendFailed(p)
    /\ UNCHANGED <<world, runs, alerts>>

(* Lines 351-353: processing the tweet raised before the send (created_at   *)
(* missing at line 302, format_tweet_for_sms at line 328); the handler      *)
(* returns False.                                                           *)
ProcessRaises(p) ==
    /\ pc[p] = "process"
    /\ Advance(p, data[p], sms_sent_count[p], FALSE)
    /\ UNCHANGED <<world, runs, calls, outbox, failed, alerts>>

(* A variant of _check_volume_alert that alerts when the count reaches the  *)
(* threshold.                                                               *)
_check_volume_alert_at_threshold(d, day) ==
    IF Get(d.daily_sms_count, day) >= AlertThreshold /\ d.last_volume_alert # day
    THEN [data |-> [d EXCEPT !.last_volume_alert = day], alerted |-> TRUE]
    ELSE [data |-> d, alerted |-> FALSE]

(* _check_volume_alert: the data after it, and whether it called the        *)
(* delivery channel.                                                        *)
_check_volume_alert(d, day) ==
    IF Get(d.daily_sms_count, day) > AlertThreshold /\ d.last_volume_alert # day
    THEN [data |-> [d EXCEPT !.last_volume_alert = day], alerted |-> TRUE]
    ELSE [data |-> d, alerted |-> FALSE]

(* A variant of RecordDelivery that leaves total_tweets_sent to a later      *)
(* save: it is not part of the save that advances the marker.               *)
RecordDeliveryNoTotal(p, alert_ok) ==
    /\ pc[p] = "sent"
    /\ LET tweet == new_tweets[p][idx[p]]
           daily_count == Get(data[p].daily_sms_count, today[p])
           d1 == [data[p] EXCEPT
                    !.last_tweet_id = tweet,
                    !.daily_sms_count = Put(@, today[p], daily_count + 1)]
           a == _check_volume_alert(d1, today[p])
       IN /\ Advance(p, a.data, sms_sent_count[p] + 1, TRUE)
          /\ calls' = IF a.alerted THEN Called(p, "send") ELSE calls
          /\ alerts' = IF a.alerted /\ alert_ok THEN Append(alerts, today[p]) ELSE alerts
    /\ UNCHANGED <<world, runs, outbox, failed>>

(* A variant of RecordDelivery that reads data.json again before it counts  *)
(* the delivery, as a coordinated writer would.                             *)
RecordDeliveryReloads(p, alert_ok) ==
    /\ pc[p] = "sent"
    /\ LET tweet == new_tweets[p][idx[p]]
           fresh == load_data
           daily_count == Get(fresh.daily_sms_count, today[p])
           d1 == [fresh EXCEPT
                    !.last_tweet_id = tweet,
                    !.total_tweets_sent = @ + 1,
                    !.daily_sms_count = Put(@, today[p], daily_count + 1)]
           a == _check_volume_alert(d1, today[p])
       IN /\ Advance(p, a.data, sms_sent_count[p] + 1, TRUE)
          /\ calls' = IF a.alerted THEN Called(p, "send") ELSE calls
          /\ alerts' = IF a.alerted /\ alert_ok THEN Append(alerts, today[p]) ELSE alerts
    /\ UNCHANGED <<world, runs, outbox, failed>>

(* Lines 333-346: the send succeeded. *)
RecordDelivery(p, alert_ok) ==
    /\ pc[p] = "sent"
    /\ LET tweet == new_tweets[p][idx[p]]
           daily_count == Get(data[p].daily_sms_count, today[p])
           d1 == [data[p] EXCEPT
                    !.last_tweet_id = tweet,
                    !.total_tweets_sent = @ + 1,
                    !.daily_sms_count = Put(@, today[p], daily_count + 1)]
           a == _check_volume_alert(d1, today[p])
       IN /\ Advance(p, a.data, sms_sent_count[p] + 1, TRUE)
          /\ calls' = IF a.alerted THEN Called(p, "send") ELSE calls
          /\ alerts' = IF a.alerted /\ alert_ok THEN Append(alerts, today[p]) ELSE alerts
    /\ UNCHANGED <<world, runs, outbox, failed>>

(* set_indefinite_pause, called on a constructed monitor by the operator. *)
SetIndefinitePause(p) ==
    /\ pc[p] = "start"
    /\ save_data(set_indefinite_pause(data[p], ManualReason))
    /\ Exit(p, "ok")
    /\ UNCHANGED <<world, runs, calls, outbox, failed, alerts>>

(* The process dies (kill, power loss) wherever it is. *)
Crash(p) ==
    /\ pc[p] # "idle"
    /\ Exit(p, "crashed")
    /\ UNCHANGED <<world, runs, file, file_state, calls, outbox, failed, alerts>>

(***************************** the environment ******************************)
(* The account posts a tweet: ids grow with time. *)
Post ==
    /\ Len(created) < item_limit
    /\ created' = Append(created, now)
    /\ UNCHANGED <<now, instants, item_limit, file_state, file, runs, pc, data, shams_user_id,
                   locals, exit_code, calls, outbox, failed, alerts>>

Tick ==
    /\ \E t \in instants :
          /\ t > now
          /\ \/ \A p \in Procs : pc[p] = "idle"
             \/ /\ t - now <= BlockLimit
                /\ \E p \in Procs : pc[p] \in {"fetch", "process", "sent"}
          /\ now' = t
    /\ UNCHANGED <<instants, item_limit, created, file_state, file, runs, pc, data, shams_user_id,
                   locals, exit_code, calls, outbox, failed, alerts>>

(***************************** specifications *******************************)
InitProcs ==
    /\ runs = 0
    /\ pc = [p \in Procs |-> "idle"]
    /\ data = [p \in Procs |-> _create_default_data]
    /\ shams_user_id = [p \in Procs |-> "None"]
    /\ check_time = [p \in Procs |-> IsoFormat(0)]
    /\ new_tweets = [p \in Procs |-> <<>>]
    /\ idx = [p \in Procs |-> 0]
    /\ sms_sent_count = [p \in Procs |-> 0]
    /\ today = [p \in Procs |-> 0]
    /\ exit_code = [p \in Procs |-> "none"]
    /\ calls = [p \in Procs |-> NoCalls]
    /\ failed = {}
    /\ alerts = <<>>

(* First run: no data.json. *)
Init ==
    /\ now = 0
    /\ instants \in Schedules
    /\ item_limit = MaxItems
    /\ created = <<>>
    /\ file_state = "missing"
    /\ file = _create_default_data
    /\ outbox = <<>>
    /\ InitProcs

(* One invocation of main.py, step by step. *)
Step(p) ==
    \/ \E resolve_ok \in BOOLEAN : Construct(p, resolve_ok)
    \/ BeginCycle(p)
    \/ FetchOk(p)
    \/ FetchRateLimited(p)
    \/ FetchError(p)
    \/ \E send_ok \in BOOLEAN : ProcessTweet(p, send_ok)
    \/ \E alert_ok \in BOOLEAN : RecordDelivery(p, alert_ok)
    \/ SetIndefinitePause(p)
    \/ Crash(p)

(* Serialised invocations: the scheduler runs one process at a time. *)
Next == Step(1) \/ Post \/ Tick

Spec == Init /\ [][Next]_vars

(* A feed that may hand over a malformed tweet, on which processing raises. *)
InitMalformed == Init /\ instants = {0, MaxAge, PauseSeconds}

NextMalformed == Next \/ ProcessRaises(1)

SpecMalformed == InitMalformed /\ [][NextMalformed]_vars

(* data.json is damaged between two invocations: its content is no longer  *)
(* JSON ("corrupt"), or it is JSON but not an object ("not_mapping").       *)
Damage ==
    /\ \A p \in Procs : pc[p] = "idle"
    /\ runs < MaxRuns
    /\ file_state = "ok"
    /\ file_state' \in {"corrupt", "not_mapping"}
    /\ file' = _create_default_data
    /\ UNCHANGED <<world, runs, pc, data, shams_user_id, locals, exit_code, calls,
                   outbox, failed, alerts>>

InitDamage == Init /\ instants = {0, MaxAge, PauseSeconds}

NextDamage == Next \/ Damage \/ ConstructRaises(1)

SpecDamage == InitDamage /\ [][NextDamage]_vars

(* A feed that answers with any batch of one or two known tweets, whatever  *)
(* since_id was: repeated ids, ids at or below the marker, any order.  The  *)
(* tweets were all posted at time 0.                                        *)
Batches == UNION {[1..n -> 1..Len(created)] : n \in 1..2}

FetchAnyBatch(p) ==
    /\ pc[p] = "fetch"
    /\ calls' = Called(p, "feed")
    /\ \E batch \in Batches :
          /\ new_tweets' = Set(new_tweets, p, batch)
          /\ idx' = Set(idx, p, 1)
          /\ sms_sent_count' = Set(sms_sent_count, p, 0)
          /\ pc' = Set(pc, p, "process")
    /\ UNCHANGED <<world, runs, data, file, file_state, shams_user_id, check_time, today,
                   exit_code, outbox, failed, alerts>>

InitAnyFeed ==
    /\ now = 0
    /\ instants = {0, MaxAge + 1}
    /\ item_limit = MaxItems
    /\ created = [i \in 1..MaxItems |-> 0]
    /\ file_state = "missing"
    /\ file = _create_default_data
    /\ outbox = <<>>
    /\ InitProcs

NextAnyFeed == Step(1) \/ FetchAnyBatch(1) \/ Tick

SpecAnyFeed == InitAnyFeed /\ [][NextAnyFeed]_vars

(* A day that is already near the hard stop: one earlier cycle, at time 0,  *)
(* fetched k tweets and delivered them all.                                 *)
InitCap ==
    /\ now = 0
    /\ instants = {0, MaxAge, PauseSeconds}
    /\ \E k \in {HardStop - 1, HardStop} :
          /\ item_limit = k + MaxItems
          /\ created = [i \in 1..k |-> 0]
          /\ file = [_create_default_data EXCEPT
                        !.last_tweet_id = k,
                        !.total_tweets_sent = k,
                        !.shams_user_id = ResolvedUserId,
                        !.activity_log = <<ActivityEntry(IsoFormat(0), "check", k, k)>>,
                        !.daily_sms_count = Put(EmptyCounts, Today(0), k)]
          /\ InitProcs
          /\ outbox = [i \in 1..k |-> i]
    /\ file_state = "ok"

SpecCap == InitCap /\ [][Next]_vars

(* Cycles in which nothing goes wrong: the fetch answers, every send is     *)
(* confirmed, no process is killed.                                         *)
InitHappy == Init /\ instants = {0, MaxAge, PauseSeconds}

NextHappy ==
    \/ \E resolve_ok \in BOOLEAN : Construct(1, resolve_ok)
    \/ BeginCycle(1)
    \/ FetchOk(1)
    \/ ProcessTweet(1, TRUE)
    \/ \E alert_ok \in BOOLEAN : RecordDelivery(1, alert_ok)
    \/ Post
    \/ Tick

SpecHappy == InitHappy /\ [][NextHappy]_vars

(* Two invocations that overlap (the scheduler starts the second before the *)
(* first has ended), on a day with nine deliveries so far.  Nothing in the  *)
(* program locks data.json: each process loads it once and saves its own    *)
(* copy.                                                                    *)
InitRace ==
    /\ now = 0
    /\ instants = {0, MaxAge}
    /\ item_limit = HardStop - 1 + MaxItems
    /\ created = [i \in 1..(HardStop - 1) |-> 0]
    /\ file_state = "ok"
    /\ file = [_create_default_data EXCEPT
                  !.last_tweet_id = HardStop - 1,
                  !.total_tweets_sent = HardStop - 1,
                  !.shams_user_id = ResolvedUserId,
                  !.activity_log = <<ActivityEntry(IsoFormat(0), "check",
                                                   HardStop - 1, HardStop - 1)>>,
                  !.daily_sms_count = Put(EmptyCounts, Today(0), HardStop - 1)]
    /\ outbox = [i \in 1..(HardStop - 1) |-> i]
    /\ InitProcs

NextRace == Step(1) \/ Step(2) \/ Post \/ Tick

SpecRace == InitRace /\ [][NextRace]_vars

(* data.json as an input: today's count is whatever the file says, also a   *)
(* value the program itself never writes (above the hard stop, at or above  *)
(* the backoff threshold).                                                  *)
CountInputs == {HardStop - 1, HardStop, SoftThreshold - 1, SoftThreshold, SoftThreshold + 1}

InitCounts ==
    /\ now = 0
    /\ instants = {0, MaxAge}
    /\ item_limit = MaxItems
    /\ created = <<>>
    /\ file_state = "ok"
    /\ \E k \in CountInputs :
          file = [_create_default_data EXCEPT
                     !.total_tweets_sent = k,
                     !.shams_user_id = ResolvedUserId,
                     !.daily_sms_count = Put(EmptyCounts, Today(0), k)]
    /\ outbox = <<>>
    /\ InitProcs

SpecCounts == InitCounts /\ [][Next]_vars

(**************************** what the claims say ***************************)
Delivered == {outbox[i] : i \in 1..Len(outbox)}
Last(s) == s[Len(s)]
Running(p) == pc[p] # "idle"

(* C1: the marker (last_tweet_id), in memory and in data.json, is its       *)
(* initial value or the id of a tweet whose send was confirmed; it is       *)
(* written only by the step that follows a confirmed send, with the id of   *)
(* that tweet; and a cycle that ends after at least one confirmed delivery  *)
(* leaves the marker at the tweet delivered last.                           *)
C1_MarkerDelivered ==
    /\ file.last_tweet_id \in {NoId} \cup Delivered
    /\ \A p \in Procs : data[p].last_tweet_id \in {NoId} \cup Delivered

C1_MarkerWrite ==
    /\ file'.last_tweet_id # file.last_tweet_id =>
          \E p \in Procs : /\ pc[p] = "sent"
                           /\ outbox # <<>>
                           /\ Last(outbox) = new_tweets[p][idx[p]]
                           /\ file'.last_tweet_id = new_tweets[p][idx[p]]
    /\ \A p \in Procs :
          (Running(p) /\ pc'[p] # "idle"
             /\ data'[p].last_tweet_id # data[p].last_tweet_id) =>
          /\ pc[p] = "sent"
          /\ data'[p].last_tweet_id = Last(outbox)

C1_CycleEnd ==
    \A p \in Procs :
       (pc[p] \in {"process", "sent"} /\ pc'[p] = "idle" /\ exit_code'[p] = "ok"
          /\ (sms_sent_count[p] > 0 \/ pc[p] = "sent")) =>
       file'.last_tweet_id = Last(outbox')

C1_MarkerOnlyAfterDelivery ==
    []C1_MarkerDelivered /\ [][C1_MarkerWrite /\ C1_CycleEnd]_vars

(* A cycle ended in which one send failed and another was confirmed. *)
C1_Witness ==
    /\ pc[1] = "idle" /\ exit_code[1] = "ok"
    /\ failed # {} /\ outbox # <<>>
    /\ file.last_tweet_id = Last(outbox)
    /\ file.activity_log # <<>>
    /\ Last(file.activity_log).sms_sent > 0
    /\ Last(file.activity_log).tweets_found > Last(file.activity_log).sms_sent

(* C2: across crashes and retries no tweet is delivered twice: once its     *)
(* send was confirmed, no later cycle sends it again.                       *)
Deliveries(i) == Cardinality({j \in 1..Len(outbox) : outbox[j] = i})

C2_AtMostOnce == \A i \in 1..Len(created) : Deliveries(i) <= 1

(* C3: no calendar date's count of delivered messages exceeds 10, in        *)
(* data.json and in memory, whatever the size of the batch.                 *)
CountsAtMost(d, n) == \A day \in DOMAIN d.daily_sms_count : d.daily_sms_count[day] <= n

C3_DailyCountAtMostHardStop ==
    /\ CountsAtMost(file, HardStop)
    /\ \A p \in Procs : CountsAtMost(data[p], HardStop)

(* The day reached 10 by a delivery, and a later cycle was offered fresh    *)
(* tweets and sent none of them.                                            *)
C3_Witness ==
    /\ now = 0
    /\ pc[1] = "idle" /\ exit_code[1] = "ok"
    /\ Get(file.daily_sms_count, Today(0)) = HardStop
    /\ Len(outbox) = HardStop
    /\ file.last_tweet_id = HardStop
    /\ Len(created) > HardStop
    /\ item_limit = HardStop - 1 + MaxItems
    /\ Last(file.activity_log).action = "check"
    /\ Last(file.activity_log).tweets_found > 0
    /\ Last(file.activity_log).sms_sent = 0
    /\ failed = {}

(* C4: a tweet whose send failed is in the batch of every later cycle that  *)
(* fetches while the tweet is at most one hour old.                         *)
Range(s) == {s[i] : i \in 1..Len(s)}

C4_FailedItemRetried ==
    [][\A p \in Procs :
          FetchOk(p) =>
             \A i \in failed \ Delivered :
                now - created[i] <= MaxAge => i \in Range(new_tweets'[p])]_vars

(* C5: every call of check_for_new_tweets leaves exactly one new record,    *)
(* the last of the log, with the action of the branch it took: "paused",    *)
(* "check", "rate_limited_paused" or "error"; the records before it are     *)
(* those of the loaded log that are still retained, and no step that does   *)
(* not end a cycle changes the log.                                         *)
IsSuffix(s, t) == \E k \in 0..Len(t) : s = SubSeq(t, k + 1, Len(t))
Front(s) == SubSeq(s, 1, Len(s) - 1)

OneRecord(old, new, timestamp, action_type) ==
    /\ new # <<>>
    /\ Last(new).timestamp = timestamp
    /\ Last(new).action = action_type
    /\ IsSuffix(Front(new), old)

C5_CycleStep(p) ==
    LET old == load_data.activity_log
        new == file'.activity_log
    IN /\ (BeginCycle(p) /\ pc'[p] = "idle") =>
              OneRecord(old, new, IsoFormat(now), "paused")
       /\ (FetchOk(p) /\ pc'[p] = "idle") =>
              OneRecord(old, new, check_time[p], "check")
       /\ FetchRateLimited(p) =>
              OneRecord(old, new, check_time[p], "rate_limited_paused")
       /\ FetchError(p) =>
              OneRecord(old, new, check_time[p], "error")
       /\ (pc[p] \in {"process", "sent"} /\ pc'[p] = "idle" /\ exit_code'[p] = "ok") =>
              OneRecord(old, new, check_time[p], "check")
       /\ (Running(p) /\ pc'[p] # "idle") =>
              /\ file'.activity_log = load_data.activity_log
              /\ data'[p].activity_log = load_data.activity_log

C5_OneRecordPerCycle == [][\A p \in Procs : C5_CycleStep(p)]_vars

(* Two cycles, one that failed and one that fetched tweets, left two        *)
(* records.                                                                 *)
C5_Witness ==
    /\ pc[1] = "idle"
    /\ Len(file.activity_log) = 2
    /\ file.activity_log[1].action = "error"
    /\ file.activity_log[2].action = "check"
    /\ file.activity_log[2].tweets_found > 0

(* C6: an invocation that finds the system paused calls neither the feed    *)
(* client (get_user, get_users_tweets) nor the delivery channel, and leaves *)
(* the marker, the counters and the pause fields of data.json as they were: *)
(* it only appends its "paused" record.                                     *)
SameButLog(d, e) == [d EXCEPT !.activity_log = <<>>] = [e EXCEPT !.activity_log = <<>>]

PausedCycleFrame(p) ==
    /\ calls[p].feed = 0
    /\ calls[p].send = 0
    /\ outbox' = outbox /\ alerts' = alerts
    /\ file_state' = "ok"
    /\ SameButLog(file', load_data)
    /\ Last(file'.activity_log).action = "paused"
    /\ pc'[p] = "idle"

C6_PausedCycleSilent ==
    [][\A p \in Procs :
          (BeginCycle(p) /\ is_paused(data[p], now).paused) =>
             (PausedCycleFrame(p) /\ calls[p].resolve = 0)]_vars

(* C7: when paused_until is an instant that is not after now, the cycle's   *)
(* is_paused answers "not paused", sets paused_until and pause_reason to    *)
(* None, saves, and the cycle goes on to fetch.                             *)
PauseExpired(d, t) ==
    d.paused_until.kind = "until" /\ t >= FromIsoFormat(d.paused_until.at)

C7_ExpiredPauseClears ==
    [][\A p \in Procs :
          (BeginCycle(p) /\ PauseExpired(data[p], now)) =>
             /\ pc'[p] = "fetch"
             /\ data'[p].paused_until = NotPaused
             /\ data'[p].pause_reason = "None"
             /\ file_state' = "ok"
             /\ file' = data'[p]
             /\ SameButLog([file' EXCEPT !.paused_until = data[p].paused_until,
                                         !.pause_reason = data[p].pause_reason],
                           data[p])]_vars

(* A rate-limit pause armed at time 0 was cleared by the cycle that started *)
(* at the very instant it ended, and that cycle is fetching.                *)
C7_Witness ==
    /\ pc[1] = "fetch"
    /\ now = PauseSeconds
    /\ check_time[1] = IsoFormat(PauseSeconds)
    /\ file_state = "ok"
    /\ file.paused_until = NotPaused /\ file.pause_reason = "None"
    /\ file.activity_log # <<>>
    /\ Last(file.activity_log) =
          ActivityEntry(IsoFormat(0), "rate_limited_paused", 0, 0)

(* C8: once data.json holds the indefinite pause, no step of any cycle, at  *)
(* any clock value, changes paused_until or pause_reason, and every cycle   *)
(* that checks the pause ends at once with a "paused" record.               *)
C8_IndefiniteStays ==
    [][(file_state = "ok" /\ file.paused_until = Indefinite) =>
          /\ file_state' = "ok"
          /\ file'.paused_until = Indefinite
          /\ file'.pause_reason = file.pause_reason
          /\ \A p \in Procs :
                BeginCycle(p) =>
                   /\ is_paused(data[p], now).paused
                   /\ pc'[p] = "idle"
                   /\ exit_code'[p] = "ok"
                   /\ Last(file'.activity_log).action = "paused"]_vars

(* The operator paused the system at time 0, and a cycle at a later instant *)
(* recorded "paused".                                                       *)
C8_Witness ==
    /\ pc[1] = "idle"
    /\ now > 0
    /\ file.paused_until = Indefinite
    /\ file.pause_reason = ManualReason
    /\ file.activity_log # <<>>
    /\ Last(file.activity_log).action = "paused"
    /\ Last(file.activity_log).timestamp = IsoFormat(now)

(* C9: paused_until is None exactly when pause_reason is None, in data.json *)
(* and in memory; and every write of either field writes the pair that      *)
(* set_48_hour_pause, set_indefinite_pause or _clear_pause writes.          *)
PauseFieldsTogether(d) == (d.paused_until.kind = "none") <=> (d.pause_reason = "None")

PausePair(d) == <<d.paused_until, d.pause_reason>>

C9_PauseWrite ==
    PausePair(file') # PausePair(file) =>
       \/ PausePair(file') = <<NotPaused, "None">>
       \/ /\ file'.paused_until \in {Until(now + PauseSeconds), Indefinite}
          /\ file'.pause_reason # "None"

C9_PauseFieldsTogether ==
    /\ [](PauseFieldsTogether(file) /\ \A p \in Procs : PauseFieldsTogether(data[p]))
    /\ [][C9_PauseWrite]_vars

(* A 48-hour pause was armed and later cleared: both fields were set, and   *)
(* both are None again.                                                     *)
C9_Witness ==
    /\ file_state = "ok"
    /\ file.paused_until = NotPaused /\ file.pause_reason = "None"
    /\ \E i \in 1..Len(file.activity_log) :
          file.activity_log[i].action = "rate_limited_paused"

(* C10: when the fetch signals rate exhaustion the cycle sends nothing,     *)
(* leaves the marker and the delivery counters as loaded, sets paused_until *)
(* to now + 48 hours with a reason, appends one "rate_limited_paused"       *)
(* record with 0 found and 0 sent, and returns normally; and every cycle    *)
(* that starts before paused_until ends at once with a "paused" record.     *)
C10_RateLimitedStep(p) ==
    FetchRateLimited(p) =>
       /\ calls[p].send = 0
       /\ outbox' = outbox /\ alerts' = alerts
       /\ file_state' = "ok"
       /\ file'.last_tweet_id = load_data.last_tweet_id
       /\ file'.total_tweets_sent = load_data.total_tweets_sent
       /\ file'.daily_sms_count = load_data.daily_sms_count
       /\ file'.last_volume_alert = load_data.last_volume_alert
       /\ file'.paused_until.kind = "until"
       /\ FromIsoFormat(file'.paused_until.at) = now + PauseSeconds
       /\ file'.pause_reason # "None"
       /\ OneRecord(load_data.activity_log, file'.activity_log, check_time[p],
                    "rate_limited_paused")
       /\ Last(file'.activity_log).tweets_found = 0
       /\ Last(file'.activity_log).sms_sent = 0
       /\ pc'[p] = "idle"
       /\ exit_code'[p] = "ok"

C10_PausedBefore(p) ==
    (BeginCycle(p) /\ file_state = "ok" /\ file.paused_until.kind = "until"
       /\ now < FromIsoFormat(file.paused_until.at)) =>
       /\ pc'[p] = "idle"
       /\ Last(file'.activity_log).action = "paused"
       /\ PausePair(file') = PausePair(file)

C10_RateLimitArmsPause ==
    [][\A p \in Procs : C10_RateLimitedStep(p) /\ C10_PausedBefore(p)]_vars

(* Rate exhaustion at time 0, then a cycle one hour later that was paused.  *)
C10_Witness ==
    /\ pc[1] = "idle"
    /\ file.paused_until = Until(PauseSeconds)
    /\ file.pause_reason = RateLimitReason
    /\ Len(file.activity_log) = 2
    /\ file.activity_log[1] = ActivityEntry(IsoFormat(0), "rate_limited_paused", 0, 0)
    /\ file.activity_log[2] = ActivityEntry(IsoFormat(MaxAge), "paused", 0, 0)

(* C11: when the fetch fails with an error other than rate exhaustion, the  *)
(* cycle appends one "error" record, arms no pause, leaves everything else  *)
(* in data.json as it was loaded (marker, counters), has called the fetch   *)
(* once only, and ends the process with a non-zero exit status.             *)
C11_FetchErrorStep(p) ==
    FetchError(p) =>
       /\ OneRecord(load_data.activity_log, file'.activity_log, check_time[p], "error")
       /\ Last(file'.activity_log).tweets_found = 0
       /\ Last(file'.activity_log).sms_sent = 0
       /\ file_state' = "ok"
       /\ SameButLog(file', load_data)
       /\ PausePair(file') = PausePair(load_data)
       /\ outbox' = outbox /\ alerts' = alerts
       /\ calls[p].feed = 0 /\ calls'[p].feed = 1
       /\ calls[p].send = 0
       /\ pc'[p] = "idle"
       /\ exit_code'[p] = "error"

C11_FetchErrorPropagates == [][\A p \in Procs : C11_FetchErrorStep(p)]_vars

(* A cycle delivered a tweet; the next one failed in the fetch and exited   *)
(* with an error, and the marker of the first is still in data.json.        *)
C11_Witness ==
    /\ pc[1] = "idle" /\ exit_code[1] = "error"
    /\ file.last_tweet_id # NoId
    /\ file.total_tweets_sent = 1
    /\ file.paused_until = NotPaused
    /\ Len(file.activity_log) = 2
    /\ file.activity_log[1].action = "check"
    /\ file.activity_log[2].action = "error"

(* C12: when the send of one tweet fails, or processing it raises, the      *)
(* marker, the total and the daily counts stay as they were, in memory and  *)
(* in data.json; the cycle goes on with the next tweet of the batch, in     *)
(* order; and the cycle's "check" record counts the confirmed deliveries    *)
(* only: sms_sent_count grows by one after a confirmed send and at no other *)
(* step.                                                                    *)
C12_ItemFailed(p) ==
    \/ ProcessRaises(p)
    \/ ProcessTweet(p, FALSE) /\ calls'[p].send = calls[p].send + 1

C12_FailedStep(p) ==
    C12_ItemFailed(p) =>
       /\ outbox' = outbox /\ alerts' = alerts
       /\ IF idx[p] < Len(new_tweets[p])
          THEN /\ pc'[p] = "process"
               /\ idx'[p] = idx[p] + 1
               /\ new_tweets'[p] = new_tweets[p]
               /\ sms_sent_count'[p] = sms_sent_count[p]
               /\ data'[p] = data[p]
               /\ file' = file /\ file_state' = file_state
          ELSE /\ pc'[p] = "idle"
               /\ exit_code'[p] = "ok"
               /\ file_state' = "ok"
               /\ SameButLog(file', data[p])
               /\ SameButLog(file', load_data)
               /\ Last(file'.activity_log) =
                     ActivityEntry(check_time[p], "check", Len(new_tweets[p]),
                                   sms_sent_count[p])

C12_CountStep(p) ==
    /\ (pc[p] = "process" /\ pc'[p] = "process") =>
          sms_sent_count'[p] = sms_sent_count[p] /\ outbox' = outbox
    /\ (pc[p] = "process" /\ pc'[p] = "sent") =>
          /\ sms_sent_count'[p] = sms_sent_count[p]
          /\ outbox' = Append(outbox, new_tweets[p][idx[p]])
    /\ (pc[p] = "sent" /\ pc'[p] = "process") =>
          sms_sent_count'[p] = sms_sent_count[p] + 1 /\ outbox' = outbox
    /\ (pc[p] = "sent" /\ pc'[p] = "idle" /\ exit_code'[p] = "ok") =>
          Last(file'.activity_log).sms_sent = sms_sent_count[p] + 1
    /\ (pc[p] = "fetch" /\ pc'[p] = "process") => sms_sent_count'[p] = 0

C12_FailureSkipsItem ==
    [][\A p \in Procs : C12_FailedStep(p) /\ C12_CountStep(p)]_vars

(* In a batch of two the first send failed and the second was confirmed:    *)
(* the record says 2 found, 1 sent.                                         *)
C12_Witness ==
    /\ pc[1] = "idle" /\ exit_code[1] = "ok"
    /\ failed = {1} /\ outbox = <<2>>
    /\ file.last_tweet_id = 2
    /\ file.total_tweets_sent = 1
    /\ Last(file.activity_log).action = "check"
    /\ Last(file.activity_log).tweets_found = 2
    /\ Last(file.activity_log).sms_sent = 1

(* C13: whatever the batch holds, a tweet whose id equals the stored marker *)
(* when it is processed is not sent and changes nothing: no call to the     *)
(* delivery channel, memory and data.json as they were (the cycle's own     *)
(* record aside, when the tweet was the last of the batch).                 *)
C13_DedupStep(p) ==
    (/\ pc[p] = "process"
     /\ new_tweets[p][idx[p]] = data[p].last_tweet_id
     /\ (pc'[p] # "process" \/ idx'[p] # idx[p])
     /\ exit_code'[p] # "crashed") =>
       /\ outbox' = outbox /\ alerts' = alerts /\ failed' = failed
       /\ calls'[p] = calls[p]
       /\ IF idx[p] < Len(new_tweets[p])
          THEN /\ pc'[p] = "process"
               /\ idx'[p] = idx[p] + 1
               /\ sms_sent_count'[p] = sms_sent_count[p]
               /\ data'[p] = data[p]
               /\ file' = file /\ file_state' = file_state
          ELSE /\ pc'[p] = "idle"
               /\ SameButLog(file', data[p])
               /\ Last(file'.activity_log).sms_sent = sms_sent_count[p]

C13_MarkerItemSkipped == [][\A p \in Procs : C13_DedupStep(p)]_vars

(* Tweet 1 was offered twice in one batch at time 0 and delivered once. *)
C13_Witness ==
    /\ pc[1] = "idle" /\ exit_code[1] = "ok"
    /\ now = 0
    /\ outbox = <<1>> /\ failed = {}
    /\ file.last_tweet_id = 1
    /\ Len(file.activity_log) = 1
    /\ Last(file.activity_log).tweets_found = 2
    /\ Last(file.activity_log).sms_sent = 1

(* C14: a tweet that is more than 3600 seconds old when it is processed is  *)
(* not sent and changes neither the marker nor a counter; a tweet that is   *)
(* exactly 3600 seconds old passes the age rule, and is sent when the       *)
(* other rules let it through.                                              *)
Age(p) == now - created[new_tweets[p][idx[p]]]

C14_OldStep(p) ==
    (/\ pc[p] = "process"
     /\ Age(p) > MaxAge
     /\ (pc'[p] # "process" \/ idx'[p] # idx[p])
     /\ exit_code'[p] # "crashed") =>
       /\ outbox' = outbox /\ alerts' = alerts /\ failed' = failed
       /\ calls'[p] = calls[p]
       /\ IF idx[p] < Len(new_tweets[p])
          THEN /\ pc'[p] = "process"
               /\ idx'[p] = idx[p] + 1
               /\ sms_sent_count'[p] = sms_sent_count[p]
               /\ data'[p] = data[p]
               /\ file' = file /\ file_state' = file_state
          ELSE /\ pc'[p] = "idle"
               /\ SameButLog(file', data[p])
               /\ Last(file'.activity_log).sms_sent = sms_sent_count[p]

C14_BoundaryStep(p) ==
    (/\ ProcessTweet(p, TRUE)
     /\ Age(p) = MaxAge
     /\ new_tweets[p][idx[p]] # data[p].last_tweet_id
     /\ Get(data[p].daily_sms_count, Today(now)) < HardStop) =>
       /\ pc'[p] = "sent"
       /\ outbox' = Append(outbox, new_tweets[p][idx[p]])

C14_OldItemSkipped ==
    [][\A p \in Procs : C14_OldStep(p) /\ C14_BoundaryStep(p)]_vars

(* Of two tweets posted at time 0, the cycle that started at 3600 sent the  *)
(* first at that instant, and the second is 3601 seconds old when its turn  *)
(* comes.                                                                   *)
C14_Witness ==
    /\ pc[1] = "process"
    /\ check_time[1] = IsoFormat(MaxAge)
    /\ now = MaxAge + 1
    /\ new_tweets[1] = <<1, 2>> /\ idx[1] = 2
    /\ created = <<0, 0>>
    /\ outbox = <<1>>
    /\ data[1].last_tweet_id = 1

(* C15: while today's count is 10 or more, every tweet of the batch is      *)
(* denied without a call to the delivery channel; the marker, the total,    *)
(* the daily counts and the pause fields stay as they were, in memory and   *)
(* in data.json; and a cycle that started at the cap records 0 delivered.   *)
CapReached(p) == Get(data[p].daily_sms_count, Today(now)) >= HardStop

C15_DeniedStep(p) ==
    (/\ pc[p] = "process"
     /\ CapReached(p)
     /\ (pc'[p] # "process" \/ idx'[p] # idx[p])
     /\ exit_code'[p] # "crashed") =>
       /\ outbox' = outbox /\ alerts' = alerts /\ failed' = failed
       /\ calls'[p] = calls[p]
       /\ IF idx[p] < Len(new_tweets[p])
          THEN /\ pc'[p] = "process"
               /\ idx'[p] = idx[p] + 1
               /\ sms_sent_count'[p] = sms_sent_count[p]
               /\ data'[p] = data[p]
               /\ file' = file /\ file_state' = file_state
          ELSE /\ pc'[p] = "idle"
               /\ exit_code'[p] = "ok"
               /\ SameButLog(file', data[p])
               /\ SameButLog(file', file)
               /\ file'.paused_until = NotPaused
               /\ Last(file'.activity_log) =
                     ActivityEntry(check_time[p], "check", Len(new_tweets[p]),
                                   sms_sent_count[p])

C15_FetchAtCap(p) ==
    (FetchOk(p) /\ CapReached(p) /\ pc'[p] = "process") =>
       sms_sent_count'[p] = 0 /\ CapReached(p)'

C15_HardStopDenies ==
    [][\A p \in Procs : C15_DeniedStep(p) /\ C15_FetchAtCap(p)]_vars

(* Ten messages were delivered today; a later cycle was offered two fresh   *)
(* tweets and recorded 2 found, 0 delivered, with no pause armed.           *)
C15_Witness ==
    /\ pc[1] = "idle" /\ exit_code[1] = "ok"
    /\ now = 0
    /\ item_limit = HardStop + MaxItems
    /\ Len(created) = HardStop + 2
    /\ Len(outbox) = HardStop
    /\ file.last_tweet_id = HardStop
    /\ file.total_tweets_sent = HardStop
    /\ Get(file.daily_sms_count, Today(0)) = HardStop
    /\ file.paused_until = NotPaused /\ file.pause_reason = "None"
    /\ failed = {}
    /\ Last(file.activity_log) = ActivityEntry(IsoFormat(0), "check", 2, 0)

(* C16: the step that follows a confirmed send writes, in one save, the     *)
(* marker, total_tweets_sent + 1 and today's count + 1, and leaves the      *)
(* counts of the other dates alone; nothing else changes these fields of    *)
(* data.json; so in every persisted state total_tweets_sent is the sum of   *)
(* the daily counts.                                                        *)
RECURSIVE SumOver(_, _)
SumOver(counts, days) ==
    IF days = {} THEN 0
    ELSE LET d == CHOOSE x \in days : TRUE
         IN counts[d] + SumOver(counts, days \ {d})

SumCounts(counts) == SumOver(counts, DOMAIN counts)

Counters(d) == <<d.last_tweet_id, d.total_tweets_sent, d.daily_sms_count>>

C16_TotalIsSum == load_data.total_tweets_sent = SumCounts(load_data.daily_sms_count)

C16_DeliveryStep(p) ==
    (pc[p] = "sent" /\ pc'[p] # "sent" /\ exit_code'[p] # "crashed") =>
       /\ Counters(data[p]) = Counters(load_data)
       /\ file_state' = "ok"
       /\ file'.last_tweet_id = new_tweets[p][idx[p]]
       /\ file'.total_tweets_sent = load_data.total_tweets_sent + 1
       /\ \A day \in DOMAIN file'.daily_sms_count :
             file'.daily_sms_count[day] =
                Get(load_data.daily_sms_count, day) + (IF day = today[p] THEN 1 ELSE 0)
       /\ DOMAIN file'.daily_sms_count = DOMAIN load_data.daily_sms_count \cup {today[p]}

C16_CounterWrite ==
    Counters(file') # Counters(load_data) => \E p \in Procs : pc[p] = "sent"

C16_CountersWithMarker ==
    /\ []C16_TotalIsSum
    /\ [][C16_CounterWrite /\ \A p \in Procs : C16_DeliveryStep(p)]_vars

(* One delivery on day 0 and one on day 2: the total is 2. *)
C16_Witness ==
    /\ pc[1] = "idle"
    /\ file_state = "ok"
    /\ file.total_tweets_sent = 2
    /\ Get(file.daily_sms_count, Today(0)) = 1
    /\ Get(file.daily_sms_count, Today(PauseSeconds)) = 1
    /\ file.last_tweet_id = 2
    /\ outbox = <<1, 2>>

(* C17 speaks of the delivery that leaves today's count above 10.  There is *)
(* none: a send needs a count below 10 (line 317) and writes that count     *)
(* plus one, so _check_volume_alert never finds a count above 10, no alert  *)
(* is ever sent and last_volume_alert is never written.                     *)
C17_NoVolumeAlert ==
    /\ alerts = <<>>
    /\ load_data.last_volume_alert = NoDate
    /\ \A p \in Procs : data[p].last_volume_alert = NoDate
    /\ \A p \in Procs :
          pc[p] = "sent" => Get(data[p].daily_sms_count, today[p]) + 1 <= AlertThreshold

(* C18: with an intact data.json left by an earlier invocation, the user id *)
(* is in the file, an invocation does not call get_user again, and the id   *)
(* in the file does not change.                                             *)
C18_ResolvedOnce ==
    [][\A p \in Procs :
          (pc[p] = "idle" /\ pc'[p] = "start" /\ runs >= 1 /\ file_state = "ok") =>
             /\ file.shams_user_id # "None"
             /\ calls'[p].resolve = 0
             /\ file_state' = "ok"
             /\ file'.shams_user_id = file.shams_user_id]_vars

(* C19: constructing the monitor never ends the process, and when data.json *)
(* is missing or its content is not a state mapping the loaded state is the *)
(* default state (before the user id is resolved).                          *)
C19_Loaded(p) ==
    /\ pc[p] = "idle" /\ pc'[p] = "start"
    /\ file_state # "ok" =>
          [data'[p] EXCEPT !.shams_user_id = "None"] = _create_default_data

C19_LoadNeverCrashes == [][runs' = runs + 1 => \E p \in Procs : C19_Loaded(p)]_vars

(* C20: when a cycle ends, whatever its outcome, no record of the saved log *)
(* is stamped more than 30 days before the current time, and the log is     *)
(* the loaded log without the records older than that, in their order,      *)
(* followed by the cycle's own record.                                      *)
Retained(log, t) ==
    SelectSeq(log, LAMBDA r : FromIsoFormat(r.timestamp) >= t - RetentionSeconds)

CycleEnds(p) ==
    \/ BeginCycle(p) /\ pc'[p] = "idle"
    \/ pc[p] \in {"fetch", "process", "sent"} /\ pc'[p] = "idle"
          /\ exit_code'[p] \in {"ok", "error"}

C20_CycleEnd(p) ==
    CycleEnds(p) =>
       /\ file_state' = "ok"
       /\ \A i \in 1..Len(file'.activity_log) :
             now - FromIsoFormat(file'.activity_log[i].timestamp) <= RetentionSeconds
       /\ file'.activity_log # <<>>
       /\ Front(file'.activity_log) = Retained(load_data.activity_log, now)
       /\ Last(file'.activity_log).timestamp \in {check_time[p], IsoFormat(now)}

C20_LogWithinRetention == [][\A p \in Procs : C20_CycleEnd(p)]_vars

(* A cycle at time 0 delivered a tweet; the cycle that ended 30 days and    *)
(* one second later left its own record only.                               *)
C20_Witness ==
    /\ pc[1] = "idle" /\ exit_code[1] = "ok"
    /\ runs = 2
    /\ now = RetentionSeconds + 1
    /\ created # <<>> /\ created[1] = 0
    /\ outbox = <<1>>
    /\ Len(file.activity_log) = 1
    /\ Last(file.activity_log).timestamp = IsoFormat(RetentionSeconds + 1)

(* C21: in a cycle whose fetch answered with n tweets, all at most one hour *)
(* old, with every send confirmed and the day's count under the cap: the    *)
(* batch is processed oldest first, the n tweets are sent in that order,    *)
(* the marker ends at the newest id, total_tweets_sent has grown by n (it   *)
(* is the number of messages sent, before and after), and the cycle's one   *)
(* record is "check" with n found and n sent.                               *)
Fresh(p) == \A i \in 1..Len(new_tweets[p]) : now - created[new_tweets[p][i]] <= MaxAge

OldestFirst(s) ==
    \A i, j \in 1..Len(s) : i < j => s[i] < s[j] /\ created[s[i]] <= created[s[j]]

LastN(s, n) == SubSeq(s, Len(s) - n + 1, Len(s))

C21_TotalIsSent ==
    /\ (\A p \in Procs : pc[p] = "idle") => load_data.total_tweets_sent = Len(outbox)
    /\ \A p \in Procs :
          /\ pc[p] = "process" => data[p].total_tweets_sent = Len(outbox)
          /\ pc[p] = "sent" => data[p].total_tweets_sent = Len(outbox) - 1

C21_FetchStep(p) ==
    (FetchOk(p) /\ pc'[p] = "process") =>
       /\ new_tweets'[p] = reversed(get_users_tweets(data[p].last_tweet_id))
       /\ OldestFirst(new_tweets'[p])
       /\ Last(new_tweets'[p]) = Len(created)

C21_ItemStep(p) ==
    (pc[p] = "process" /\ Fresh(p) /\ CapReached(p) = FALSE
       /\ (pc'[p] # "process" \/ idx'[p] # idx[p])) =>
       /\ pc'[p] = "sent"
       /\ outbox' = Append(outbox, new_tweets[p][idx[p]])

C21_CycleEnd(p) ==
    (pc[p] = "sent" /\ pc'[p] = "idle" /\ Fresh(p)) =>
       LET n == Len(new_tweets[p])
       IN /\ idx[p] = n
          /\ outbox' = outbox
          /\ LastN(outbox', n) = new_tweets[p]
          /\ OldestFirst(new_tweets[p])
          /\ file'.last_tweet_id = new_tweets[p][n]
          /\ \A i \in 1..n : new_tweets[p][i] <= file'.last_tweet_id
          /\ file'.total_tweets_sent = Len(outbox')
          /\ Last(file'.activity_log) = ActivityEntry(check_time[p], "check", n, n)
          /\ OneRecord(load_data.activity_log, file'.activity_log, check_time[p], "check")

C21_AllDelivered ==
    /\ []C21_TotalIsSent
    /\ [][\A p \in Procs : C21_FetchStep(p) /\ C21_ItemStep(p) /\ C21_CycleEnd(p)]_vars

(* Two tweets, posted at 0 and at 3600, were fetched in one cycle and both  *)
(* delivered, oldest first.                                                 *)
C21_Witness ==
    /\ pc[1] = "idle" /\ exit_code[1] = "ok"
    /\ created = <<0, MaxAge>>
    /\ now = MaxAge
    /\ outbox = <<1, 2>>
    /\ file.last_tweet_id = 2
    /\ file.total_tweets_sent = 2
    /\ file.activity_log = <<ActivityEntry(IsoFormat(MaxAge), "check", 2, 2)>>

(* C22: overlapping invocations are not coordinated.  Every save writes the *)
(* saving process's own copy of the state, whatever data.json holds by      *)
(* then, so the persisted total and daily count are at most the number of   *)
(* messages sent and can be lower; the witness is the interleaving in which *)
(* both processes load the same state, both deliver the same tweet, the     *)
(* later save overwrites the earlier one, and 11 messages have been sent    *)
(* on a day whose persisted count is 10.                                    *)
C22_PersistedAtMostSent ==
    /\ load_data.total_tweets_sent <= Len(outbox)
    /\ \A day \in DOMAIN load_data.daily_sms_count :
          load_data.daily_sms_count[day] <= Len(outbox)

C22_SaveOwnCopy(p) ==
    (pc[p] = "sent" /\ pc'[p] # "sent" /\ exit_code'[p] # "crashed") =>
       /\ file'.last_tweet_id = new_tweets[p][idx[p]]
       /\ file'.total_tweets_sent = data[p].total_tweets_sent + 1
       /\ Get(file'.daily_sms_count, today[p]) =
             Get(data[p].daily_sms_count, today[p]) + 1
       /\ SameButLog([file' EXCEPT !.last_tweet_id = 0, !.total_tweets_sent = 0,
                                   !.daily_sms_count = EmptyCounts],
                     [data[p] EXCEPT !.last_tweet_id = 0, !.total_tweets_sent = 0,
                                     !.daily_sms_count = EmptyCounts])

C22_UncoordinatedSaves ==
    /\ []C22_PersistedAtMostSent
    /\ [][\A p \in Procs : C22_SaveOwnCopy(p)]_vars

(* Both processes loaded the state with nine deliveries, both sent tweet    *)
(* 10, and the second save overwrote the first.                             *)
C22_Witness ==
    /\ \A p \in Procs : pc[p] = "idle" /\ exit_code[p] = "ok"
    /\ Len(outbox) = HardStop + 1
    /\ Deliveries(HardStop) = 2
    /\ file.total_tweets_sent = HardStop
    /\ Get(file.daily_sms_count, Today(now)) = HardStop
    /\ file.last_tweet_id = HardStop

(* C23: for the log of data.json and each window of 1, 7 or 30 days, the    *)
(* report's counts of checks, of rate-limited cycles and of errors are the  *)
(* numbers of records of the window with the actions "check",               *)
(* "rate_limited_paused" and "error", and its totals of tweets found and    *)
(* messages sent are the sums over the records of the window.               *)
Periods == {1, 7, 30}

InWindow(log, period_days, t) ==
    SelectSeq(log, LAMBDA r : FromIsoFormat(r.timestamp) >= t - period_days * DaySeconds)

C23_CountsAndTotals(period_days) ==
    LET report == get_usage_report(load_data, period_days, now)
        window == InWindow(load_data.activity_log, period_days, now)
    IN /\ report.total_checks = CountAction(window, "check")
       /\ report.error_checks = CountAction(window, "error")
       /\ report.total_tweets_found = SumFound(window)
       /\ report.total_sms_sent = SumSent(window)

C23_RateLimitedCount(period_days) ==
    LET report == get_usage_report(load_data, period_days, now)
        window == InWindow(load_data.activity_log, period_days, now)
    IN report.rate_limited_checks = CountAction(window, "rate_limited_paused")

C23_ReportCountsOutcomes ==
    \A period_days \in Periods :
       C23_CountsAndTotals(period_days) /\ C23_RateLimitedCount(period_days)

(* C24: whatever today's count is, 25 or more included, processing a tweet  *)
(* arms no pause: the pause fields are the same before and after, in memory *)
(* and in data.json; the only step that arms a timed pause is the           *)
(* rate-limit handler, with its reason.                                     *)
C24_ProcessArmsNoPause(p) ==
    (pc[p] \in {"process", "sent"} /\ exit_code'[p] # "crashed") =>
       /\ PausePair(load_data) = PausePair(data[p])
       /\ PausePair(file') = PausePair(load_data)
       /\ pc'[p] # "idle" => PausePair(data'[p]) = PausePair(data[p])

C24_TimedPauseArmed ==
    (PausePair(file') # PausePair(file) /\ file'.paused_until.kind = "until") =>
       /\ file'.pause_reason = RateLimitReason
       /\ \E p \in Procs : FetchRateLimited(p)

C24_SoftThresholdUnreachable ==
    [][C24_TimedPauseArmed /\ \A p \in Procs : C24_ProcessArmsNoPause(p)]_vars

(* Today's count is 25; a cycle was offered a fresh tweet, denied it, and   *)
(* no pause is armed.                                                       *)
C24_Witness ==
    /\ pc[1] = "idle" /\ exit_code[1] = "ok"
    /\ Get(file.daily_sms_count, Today(now)) = SoftThreshold
    /\ created # <<>> /\ now - created[1] <= MaxAge
    /\ outbox = <<>> /\ failed = {}
    /\ file.paused_until = NotPaused /\ file.pause_reason = "None"
    /\ file.activity_log # <<>>
    /\ Last(file.activity_log).action = "check"
    /\ Last(file.activity_log).tweets_found > 0
    /\ Last(file.activity_log).sms_sent = 0

(* C25: from the default state and with serialised invocations, no volume   *)
(* alert is ever sent and last_volume_alert stays None, in data.json and in *)
(* memory: the step that counts a delivery finds a count of at most 10      *)
(* after it, and makes no second call to the delivery channel.              *)
C25_NeverAlerted ==
    /\ alerts = <<>>
    /\ load_data.last_volume_alert = NoDate
    /\ \A p \in Procs : data[p].last_volume_alert = NoDate

C25_DeliveryStep(p) ==
    (pc[p] = "sent" /\ pc'[p] # "sent" /\ exit_code'[p] # "crashed") =>
       /\ Get(data[p].daily_sms_count, today[p]) < HardStop
       /\ Get(file'.daily_sms_count, today[p]) <= AlertThreshold
       /\ calls'[p] = calls[p]
       /\ file'.last_volume_alert = NoDate

C25_AlertNeverSent ==
    []C25_NeverAlerted /\ [][\A p \in Procs : C25_DeliveryStep(p)]_vars

(* The tenth delivery of the day was counted, and no alert was sent. *)
C25_Witness ==
    /\ pc[1] = "idle" /\ exit_code[1] = "ok"
    /\ item_limit = HardStop - 1 + MaxItems
    /\ Len(outbox) = HardStop
    /\ Get(file.daily_sms_count, Today(0)) = HardStop
    /\ file.total_tweets_sent = HardStop
    /\ calls[1].send = 1
    /\ alerts = <<>>
    /\ file.last_volume_alert = NoDate

(* C26: with a feed that answers with ids above since_id only, newest       *)
(* first, the marker never decreases: every step that counts a delivery     *)
(* stores an id strictly greater than the marker it replaces, in memory and *)
(* in data.json, and total_tweets_sent never decreases.                     *)
C26_MarkerWrite(p) ==
    (pc[p] = "sent" /\ pc'[p] # "sent" /\ exit_code'[p] # "crashed") =>
       /\ new_tweets[p][idx[p]] > data[p].last_tweet_id
       /\ new_tweets[p][idx[p]] > load_data.last_tweet_id
       /\ file'.last_tweet_id = new_tweets[p][idx[p]]

C26_NeverDecreases ==
    /\ file'.last_tweet_id >= load_data.last_tweet_id
    /\ file'.total_tweets_sent >= load_data.total_tweets_sent
    /\ \A p \in Procs :
          (Running(p) /\ pc'[p] # "idle") =>
             /\ data'[p].last_tweet_id >= data[p].last_tweet_id
             /\ data'[p].total_tweets_sent >= data[p].total_tweets_sent

C26_MarkerGrows ==
    [][C26_NeverDecreases /\ \A p \in Procs : C26_MarkerWrite(p)]_vars

(* Two cycles delivered one tweet each: the marker went from None to 1 and  *)
(* from 1 to 2.                                                             *)
C26_Witness ==
    /\ pc[1] = "idle" /\ exit_code[1] = "ok"
    /\ outbox = <<1, 2>>
    /\ file.last_tweet_id = 2
    /\ file.total_tweets_sent = 2
    /\ Len(file.activity_log) = 2
    /\ file.activity_log[1].sms_sent = 1
    /\ file.activity_log[2].sms_sent = 1

====
